---- MODULE Spec2Model ----
(***************************************************************************)
(* Model of the ai4foodsecurity pipeline:                                  *)
(*   - dataloaders/custom_data_transform.py : EOTransformer.transform,     *)
(*     random_crop, crop_or_pad_to_size                                    *)
(*   - training_cross_val.py : the k-fold / epoch loop of main             *)
(*   - evaluation_utils.py   : save_predictions                            *)
(*                                                                         *)
(* Arrays are records [shape, at]: shape is the numpy shape, at maps every *)
(* index tuple (1-based) to the cell.  Input pixels carry pairwise         *)
(* distinct positive integers, so a cell of an output identifies the input *)
(* position it was read from; 0 is the value np.pad fills in.              *)
(***************************************************************************)
EXTENDS Integers, Sequences, FiniteSets, TLC

\* ---------------------------------------------------------------- bounds
MaxT == 2
MaxD == 2
MaxDim == 5
MaxSize == 3
MaxFolds == 2
MaxEpochs == 4
MaxPatience == 2
MaxCheckpointEpoch == 2
MaxLoss == 3
MaxBatches == 3
MaxBatchSize == 3

\* ------------------------------------------------------- numpy primitives
Max(a, b) == IF a >= b THEN a ELSE b
Min(a, b) == IF a <= b THEN a ELSE b

\* int(np.floor(num/den)) and int(np.ceil(num/den)), den > 0
\* mutant: floor computed as ceiling
f_ceil(num, den) == -((-num) \div den)
f(num, den) == num \div den
\* mutant: ceiling computed as floor
c_floor(num, den) == num \div den
c(num, den) == -((-num) \div den)

\* Python's a // b for b > 0 (floors towards minus infinity)
FloorDiv(a, b) == a \div b

\* start index (0-based, clamped) of the slice [start:stop] on an axis of length n
SliceLo(n, start) == IF start < 0 THEN Max(start + n, 0) ELSE Min(start, n)
\* number of entries of the slice [start:stop] on an axis of length n
SliceLen(n, start, stop) == Max(SliceLo(n, stop) - SliceLo(n, start), 0)

\* image_stack[:, :, r0:r1, c0:c1]
Slice4(img, r0, r1, c0, c1) ==
    LET H == img.shape[3]
        W == img.shape[4]
        h == SliceLen(H, r0, r1)
        w == SliceLen(W, c0, c1)
        ro == SliceLo(H, r0)
        co == SliceLo(W, c0)
    IN [shape |-> <<img.shape[1], img.shape[2], h, w>>,
        at |-> [p \in (1..img.shape[1]) \X (1..img.shape[2]) \X (1..h) \X (1..w) |->
                    img.at[<<p[1], p[2], p[3] + ro, p[4] + co>>]]]

\* mask[r0:r1, c0:c1]
Slice2(m, r0, r1, c0, c1) ==
    LET H == m.shape[1]
        W == m.shape[2]
        h == SliceLen(H, r0, r1)
        w == SliceLen(W, c0, c1)
        ro == SliceLo(H, r0)
        co == SliceLo(W, c0)
    IN [shape |-> <<h, w>>,
        at |-> [p \in (1..h) \X (1..w) |-> m.at[<<p[1] + ro, p[2] + co>>]]]

\* np.pad(image_stack, ((0,0),(0,0),(rb,ra),(cb,ca))), constant mode, fill 0
Pad4(img, rb, ra, cb, ca) ==
    LET H == img.shape[3]
        W == img.shape[4]
    IN [shape |-> <<img.shape[1], img.shape[2], rb + H + ra, cb + W + ca>>,
        at |-> [p \in (1..img.shape[1]) \X (1..img.shape[2])
                        \X (1..(rb + H + ra)) \X (1..(cb + W + ca)) |->
                    IF /\ p[3] > rb /\ p[3] <= rb + H
                       /\ p[4] > cb /\ p[4] <= cb + W
                    THEN img.at[<<p[1], p[2], p[3] - rb, p[4] - cb>>]
                    ELSE 0]]

\* np.pad(mask, ((rb,ra),(cb,ca))), constant mode, fill 0
Pad2(m, rb, ra, cb, ca) ==
    LET H == m.shape[1]
        W == m.shape[2]
    IN [shape |-> <<rb + H + ra, cb + W + ca>>,
        at |-> [p \in (1..(rb + H + ra)) \X (1..(cb + W + ca)) |->
                    IF /\ p[1] > rb /\ p[1] <= rb + H
                       /\ p[2] > cb /\ p[2] <= cb + W
                    THEN m.at[<<p[1] - rb, p[2] - cb>>]
                    ELSE 0]]

\* np.rot90(image_stack, k, [2, 3]):
\*   k = 1: transpose(flip(m, axis 3));  k = 2: flip(flip(m, 2), 3);
\*   k = 3: flip(transpose(m), axis 3)
Rot90Image(img, k) ==
    LET H == img.shape[3]
        W == img.shape[4]
        h == IF k \in {1, 3} THEN W ELSE H
        w == IF k \in {1, 3} THEN H ELSE W
    IN [shape |-> <<img.shape[1], img.shape[2], h, w>>,
        at |-> [p \in (1..img.shape[1]) \X (1..img.shape[2]) \X (1..h) \X (1..w) |->
                    CASE k = 0 -> img.at[p]
                      [] k = 1 -> img.at[<<p[1], p[2], p[4], W + 1 - p[3]>>]
                      [] k = 2 -> img.at[<<p[1], p[2], H + 1 - p[3], W + 1 - p[4]>>]
                      [] k = 3 -> img.at[<<p[1], p[2], H + 1 - p[4], p[3]>>]]]

\* mutant: the mask is rotated in the opposite direction
Rot90MaskOpposite(m, k) ==
    LET H == m.shape[1]
        W == m.shape[2]
        h == IF k \in {1, 3} THEN W ELSE H
        w == IF k \in {1, 3} THEN H ELSE W
    IN [shape |-> <<h, w>>,
        at |-> [p \in (1..h) \X (1..w) |->
                    CASE k = 0 -> m.at[p]
                      [] k = 3 -> m.at[<<p[2], W + 1 - p[1]>>]
                      [] k = 2 -> m.at[<<H + 1 - p[1], W + 1 - p[2]>>]
                      [] k = 1 -> m.at[<<H + 1 - p[2], p[1]>>]]]

\* np.rot90(mask, k) with the default axes (0, 1)
Rot90Mask(m, k) ==
    LET H == m.shape[1]
        W == m.shape[2]
        h == IF k \in {1, 3} THEN W ELSE H
        w == IF k \in {1, 3} THEN H ELSE W
    IN [shape |-> <<h, w>>,
        at |-> [p \in (1..h) \X (1..w) |->
                    CASE k = 0 -> m.at[p]
                      [] k = 1 -> m.at[<<p[2], W + 1 - p[1]>>]
                      [] k = 2 -> m.at[<<H + 1 - p[1], W + 1 - p[2]>>]
                      [] k = 3 -> m.at[<<H + 1 - p[2], p[1]>>]]]

\* ------------------------------------------------ custom_data_transform.py
\* mutant: the upper end is included, as random.randint does
RandIntInclusive(low, high) == low .. high
\* np.random.randint(low, high): the integers low .. high - 1
RandInt(low, high) == low .. (high - 1)

\* the two early returns of random_crop ("skip random crop") 
RandomCropSkips(image_stack, image_size) ==
    LET H == image_stack.shape[3]
        W == image_stack.shape[4]
    IN \/ H - FloorDiv(image_size, 2) <= image_size
       \/ W - FloorDiv(image_size, 2) <= image_size

\* random_crop(image_stack, mask, image_size) with the two draws h, w
random_crop(image_stack, mask, image_size, h, w) ==
    IF RandomCropSkips(image_stack, image_size)
    THEN [image_stack |-> image_stack, mask |-> mask]
    ELSE LET half == FloorDiv(image_size, 2)
             r0 == h - f(half, 1)
             r1 == c(h + half, 1)
             c0 == w - f(half, 1)
             c1 == c(w + half, 1)
         IN [image_stack |-> Slice4(image_stack, r0, r1, c0, c1),
             mask |-> Slice2(mask, r0, r1, c0, c1)]

\* crop_or_pad_to_size(image_stack, mask, image_size)
crop_or_pad_to_size(image_stack, mask, image_size) ==
    LET H == image_stack.shape[3]
        W == image_stack.shape[4]
        hpad == image_size - H
        wpad == image_size - W
        \* crop image if image_size < H
        i1 == IF hpad < 0
              THEN Slice4(image_stack, FloorDiv(-c(hpad, 1), 2), FloorDiv(f(hpad, 1), 2),
                          0, image_stack.shape[4])
              ELSE image_stack
        m1 == IF hpad < 0
              THEN Slice2(mask, FloorDiv(-c(hpad, 1), 2), FloorDiv(f(hpad, 1), 2),
                          0, mask.shape[2])
              ELSE mask
        \* crop image if image_size < W
        i2 == IF wpad < 0
              THEN Slice4(i1, 0, i1.shape[3], FloorDiv(-c(wpad, 1), 2), FloorDiv(f(wpad, 1), 2))
              ELSE i1
        m2 == IF wpad < 0
              THEN Slice2(m1, 0, m1.shape[1], FloorDiv(-c(wpad, 1), 2), FloorDiv(f(wpad, 1), 2))
              ELSE m1
        \* pad image if image_size > H
        i3 == IF hpad > 0 THEN Pad4(i2, f(hpad, 2), c(hpad, 2), 0, 0) ELSE i2
        m3 == IF hpad > 0 THEN Pad2(m2, f(hpad, 2), c(hpad, 2), 0, 0) ELSE m2
        \* pad image if image_size > W
        i4 == IF wpad > 0 THEN Pad4(i3, 0, 0, f(wpad, 2), c(wpad, 2)) ELSE i3
        m4 == IF wpad > 0 THEN Pad2(m3, 0, 0, f(wpad, 2), c(wpad, 2)) ELSE m3
    IN [image_stack |-> i4, mask |-> m4]

\* mutant: the average is taken over every position, the mask is ignored
MaskedPositionsAll(mask) ==
    (1..mask.shape[1]) \X (1..mask.shape[2])

\* positions selected by the boolean index mask > 0
MaskedPositions(mask) ==
    {p \in (1..mask.shape[1]) \X (1..mask.shape[2]) : mask.at[p] > 0}

RECURSIVE SumCells(_, _, _, _)
SumCells(image_stack, t, d, S) ==
    IF S = {} THEN 0
    ELSE LET p == CHOOSE q \in S : TRUE
         IN image_stack.at[<<t, d, p[1], p[2]>>] + SumCells(image_stack, t, d, S \ {p})

\* image_stack[:, :, mask > 0].mean(2): every cell is the rational sum / n
\* (numpy yields nan for n = 0)
MaskedMean(image_stack, mask) ==
    LET S == MaskedPositions(mask)
    IN [shape |-> <<image_stack.shape[1], image_stack.shape[2]>>,
        at |-> [p \in (1..image_stack.shape[1]) \X (1..image_stack.shape[2]) |->
                    [sum |-> SumCells(image_stack, p[1], p[2], S), n |-> Cardinality(S)]]]

\* spatial branch of EOTransformer.transform, draws h, w (crop centre), rot
TransformSpatial(self, image_stack, mask, h, w, rot) ==
    LET a == IF /\ image_stack.shape[3] >= self.image_size
                /\ image_stack.shape[4] >= self.image_size
             THEN random_crop(image_stack, mask, self.image_size, h, w)
             ELSE [image_stack |-> image_stack, mask |-> mask]
        b == crop_or_pad_to_size(a.image_stack, a.mask, self.image_size)
    IN [image_stack |-> Rot90Image(b.image_stack, rot),
        mask |-> Rot90Mask(b.mask, rot)]

\* EOTransformer.transform(image_stack, mask).  The element-wise steps
\* (* 1e-4, z-normalisation with jitter) keep every shape and index; they are
\* recorded as the flags scaled / znorm of the result.
transform(self, image_stack, mask, h, w, rot) ==
    LET r == IF self.spatial_encoder = FALSE
             THEN [image_stack |-> MaskedMean(image_stack, mask), mask |-> -1]
             ELSE TransformSpatial(self, image_stack, mask, h, w, rot)
    IN [image_stack |-> r.image_stack, mask |-> r.mask,
        scaled |-> TRUE, znorm |-> self.normalize]

\* ----------------------------------------------------------------- state
VARIABLES
    \* EOTransformer and one call on it
    tpc,            \* "input": before the call; "output": the call has returned
    self,           \* EOTransformer fields: spatial_encoder, normalize, image_size
    image_in,       \* the image_stack argument  [T, D, H, W]
    mask_in,        \* the mask argument         [H, W]
    call,           \* which function was called, with its random draws
    result,         \* the returned (image_stack, mask)
    \* training_cross_val.main, split == 'train'
    pc,             \* position in main
    args,           \* k_folds, max_epochs, patience, checkpoint_epoch
    fold, epoch,
    best_loss, best_metric, best_epoch, patience_count,
    best_model, best_optimizer,
    all_train_losses, all_valid_losses, log_scores,
    model, optimizer,
    valid_loss,
    broke,          \* TRUE iff the epoch loop of the current fold was left by break
    files,          \* target_dir: file name -> content written by torch.save / open
    \* evaluation_utils.save_predictions
    spc,            \* position in save_predictions
    sp              \* its arguments (model_passed: the model as it was passed),
                    \* locals and effects

tvars == <<tpc, self, image_in, mask_in, call, result>>
mvars == <<pc, args, fold, epoch, best_loss, best_metric, best_epoch, patience_count,
           best_model, best_optimizer, all_train_losses, all_valid_losses, log_scores,
           model, optimizer, valid_loss, broke, files>>
pvars == <<spc, sp>>
vars == <<tvars, mvars, pvars>>

\* ------------------------------------------------- inputs of the transform
\* pixel (t, d, i, j) of an input stack [T, D, H, W]: pairwise distinct, > 0
Pixel(T, D, H, W, p) == ((p[1] - 1) * D + (p[2] - 1)) * H * W + (p[3] - 1) * W + p[4]

InputImage(T, D, H, W) ==
    [shape |-> <<T, D, H, W>>,
     at |-> [p \in (1..T) \X (1..D) \X (1..H) \X (1..W) |-> Pixel(T, D, H, W, p)]]

\* a field mask [H, W]: cell (i, j) holds +k inside the field and -k outside
\* it, k = (i-1)*W + j; the field is the first n cells in row-major order
InputMask(H, W, n) ==
    [shape |-> <<H, W>>,
     at |-> [p \in (1..H) \X (1..W) |->
                LET k == (p[1] - 1) * W + p[2]
                IN IF k <= n THEN k ELSE -k]]

NoCall == [fn |-> "none", h |-> 0, w |-> 0, rot |-> 0]
NoResult == [image_stack |-> [shape |-> <<>>, at |-> <<>>], mask |-> -1,
             scaled |-> FALSE, znorm |-> FALSE]

TransformIdle ==
    /\ tpc = "idle"
    /\ self = [spatial_encoder |-> TRUE, normalize |-> TRUE, image_size |-> 0]
    /\ image_in = [shape |-> <<>>, at |-> <<>>]
    /\ mask_in = -1
    /\ call = NoCall
    /\ result = NoResult

\* EOTransformer.__init__ and the arguments of one call
InitTransformVars ==
    /\ tpc = "input"
    /\ \E se \in BOOLEAN, nz \in BOOLEAN, s \in 1..MaxSize :
          self = [spatial_encoder |-> se, normalize |-> nz, image_size |-> s]
    /\ \E T \in 1..MaxT, D \in 1..MaxD, H \in 1..MaxDim, W \in 1..MaxDim :
          /\ image_in = InputImage(T, D, H, W)
          /\ \E n \in 0..(H * W) : mask_in = InputMask(H, W, n)
    /\ call = NoCall
    /\ result = NoResult

\* the crop centres random_crop can draw for this input (one dummy draw 0
\* when random_crop is not reached or returns early)
Draws(image_stack, image_size, axis) ==
    IF \/ image_stack.shape[3] < image_size
       \/ image_stack.shape[4] < image_size
       \/ RandomCropSkips(image_stack, image_size)
    THEN {0}
    ELSE RandInt(image_size, image_stack.shape[axis] - FloorDiv(image_size, 2))

\* a call of EOTransformer.transform(image_stack, mask)
Transform ==
    /\ tpc = "input"
    /\ \E h \in (IF self.spatial_encoder THEN Draws(image_in, self.image_size, 3) ELSE {0}),
          w \in (IF self.spatial_encoder THEN Draws(image_in, self.image_size, 4) ELSE {0}),
          rot \in (IF self.spatial_encoder THEN {0, 1, 2, 3} ELSE {0}) :
          /\ call' = [fn |-> "transform", h |-> h, w |-> w, rot |-> rot]
          /\ result' = transform(self, image_in, mask_in, h, w, rot)
    /\ tpc' = "output"
    /\ UNCHANGED <<self, image_in, mask_in, mvars, pvars>>

\* a direct call of crop_or_pad_to_size(image_stack, mask, image_size)
CropOrPadToSize ==
    /\ tpc = "input"
    /\ call' = [fn |-> "crop_or_pad_to_size", h |-> 0, w |-> 0, rot |-> 0]
    /\ LET r == crop_or_pad_to_size(image_in, mask_in, self.image_size)
       IN result' = [image_stack |-> r.image_stack, mask |-> r.mask,
                     scaled |-> FALSE, znorm |-> FALSE]
    /\ tpc' = "output"
    /\ UNCHANGED <<self, image_in, mask_in, mvars, pvars>>

\* a direct call of random_crop(image_stack, mask, image_size)
RandomCrop ==
    /\ tpc = "input"
    /\ \E h \in Draws(image_in, self.image_size, 3),
          w \in Draws(image_in, self.image_size, 4) :
          /\ call' = [fn |-> "random_crop", h |-> h, w |-> w, rot |-> 0]
          /\ LET r == random_crop(image_in, mask_in, self.image_size, h, w)
             IN result' = [image_stack |-> r.image_stack, mask |-> r.mask,
                           scaled |-> FALSE, znorm |-> FALSE]
    /\ tpc' = "output"
    /\ UNCHANGED <<self, image_in, mask_in, mvars, pvars>>

\* ------------------------------------------------- training_cross_val.main
\* np.inf: above every loss the validation can report
Inf == MaxLoss + 1
\* the values valid_loss can take (a diverged model reports a non-finite loss)
Losses == (1..MaxLoss) \cup {Inf}

\* best_model / best_optimizer before their first assignment (unbound local)
Unbound == [fold |-> -1, steps |-> -1]

\* torch.save / open(..., 'w'): create or overwrite
Put(fs, name, content) ==
    [n \in (DOMAIN fs) \cup {name} |-> IF n = name THEN content ELSE fs[n]]

TrainIdle ==
    /\ pc = "idle"
    /\ args = [k_folds |-> 0, max_epochs |-> 0, patience |-> 0, checkpoint_epoch |-> 1]
    /\ fold = 0 /\ epoch = 0
    /\ best_loss = Inf /\ best_metric = <<>> /\ best_epoch = 0 /\ patience_count = 0
    /\ best_model = Unbound /\ best_optimizer = Unbound
    /\ all_train_losses = <<>> /\ all_valid_losses = <<>> /\ log_scores = <<>>
    /\ model = Unbound /\ optimizer = Unbound
    /\ valid_loss = 0
    /\ broke = FALSE
    /\ files = <<>>

\* main entered with split == 'train', before the first fold
InitTrainVars ==
    /\ pc = "fold_start"
    /\ \E k \in 1..MaxFolds, m \in 0..MaxEpochs, p \in 0..MaxPatience,
          n \in 1..MaxCheckpointEpoch :
          args = [k_folds |-> k, max_epochs |-> m, patience |-> p, checkpoint_epoch |-> n]
    /\ fold = 0 /\ epoch = 0
    /\ best_loss = Inf /\ best_metric = <<>> /\ best_epoch = 0 /\ patience_count = 0
    /\ best_model = Unbound /\ best_optimizer = Unbound
    /\ all_train_losses = <<>> /\ all_valid_losses = <<>> /\ log_scores = <<>>
    /\ model = Unbound /\ optimizer = Unbound
    /\ valid_loss = 0
    /\ broke = FALSE
    /\ files = <<>>

\* mutant: the epoch loop body is entered before max_epochs is tested
FoldStartEntersLoop ==
    /\ pc = "fold_start"
    /\ best_loss' = Inf
    /\ best_metric' = <<>>
    /\ best_epoch' = 0
    /\ patience_count' = 0
    /\ all_train_losses' = <<>>
    /\ all_valid_losses' = <<>>
    /\ log_scores' = <<>>
    /\ model' = [fold |-> fold, steps |-> 0]
    /\ optimizer' = [fold |-> fold, steps |-> 0]
    /\ epoch' = 0
    /\ broke' = FALSE
    /\ pc' = "train"
    /\ UNCHANGED <<args, fold, best_model, best_optimizer, valid_loss, files, tvars, pvars>>

\* mutant: folds after the first go on with the model and optimizer objects
\* the previous fold left behind
FoldStartKeepsModel ==
    /\ pc = "fold_start"
    /\ best_loss' = Inf
    /\ best_metric' = <<>>
    /\ best_epoch' = 0
    /\ patience_count' = 0
    /\ all_train_losses' = <<>>
    /\ all_valid_losses' = <<>>
    /\ log_scores' = <<>>
    /\ model' = IF fold = 0 THEN [fold |-> fold, steps |-> 0] ELSE model
    /\ optimizer' = IF fold = 0 THEN [fold |-> fold, steps |-> 0] ELSE optimizer
    /\ epoch' = 0
    /\ broke' = FALSE
    /\ pc' = IF args.max_epochs > 0 THEN "train" ELSE "fold_done"
    /\ UNCHANGED <<args, fold, best_model, best_optimizer, valid_loss, files, tvars, pvars>>

\* lines 90-133: per-fold initialisation, model and optimizer instantiation,
\* entry of the epoch loop (range(max_epochs) may be empty)
FoldStart ==
    /\ pc = "fold_start"
    /\ best_loss' = Inf
    /\ best_metric' = <<>>
    /\ best_epoch' = 0
    /\ patience_count' = 0
    /\ all_train_losses' = <<>>
    /\ all_valid_losses' = <<>>
    /\ log_scores' = <<>>
    /\ model' = [fold |-> fold, steps |-> 0]
    /\ optimizer' = [fold |-> fold, steps |-> 0]
    /\ epoch' = 0
    /\ broke' = FALSE
    /\ pc' = IF args.max_epochs > 0 THEN "train" ELSE "fold_done"
    /\ UNCHANGED <<args, fold, best_model, best_optimizer, valid_loss, files, tvars, pvars>>

\* lines 134-146: one training epoch
TrainEpoch ==
    /\ pc = "train"
    /\ model' = [model EXCEPT !.steps = @ + 1]
    /\ optimizer' = [optimizer EXCEPT !.steps = @ + 1]
    /\ all_train_losses' = Append(all_train_losses, <<"train_loss", fold, epoch>>)
    /\ pc' = "validate"
    /\ UNCHANGED <<args, fold, epoch, best_loss, best_metric, best_epoch, patience_count,
                   best_model, best_optimizer, all_valid_losses, log_scores,
                   valid_loss, broke, files, tvars, pvars>>

\* lines 148-173: one validation epoch and the score log.  The score log and
\* the artifacts name the measurement they hold (the loss of fold f, epoch e),
\* not its magnitude; the magnitude is kept in valid_loss, best_loss and
\* all_valid_losses, which is what the control flow reads.
ValidateEpoch ==
    /\ pc = "validate"
    /\ \E v \in Losses :
          /\ valid_loss' = v
          /\ all_valid_losses' = Append(all_valid_losses, v)
          /\ log_scores' = Append(log_scores,
                [epoch |-> epoch, train_loss |-> <<"train_loss", fold, epoch>>,
                 valid_loss |-> <<"valid_loss", fold, epoch>>])
    /\ pc' = "early_stopping"
    /\ UNCHANGED <<args, fold, epoch, best_loss, best_metric, best_epoch, patience_count,
                   best_model, best_optimizer, all_train_losses, model, optimizer,
                   broke, files, tvars, pvars>>

\* mutant: the patience counter is not reset by an improving epoch
EarlyStoppingNoReset ==
    /\ pc = "early_stopping"
    /\ IF valid_loss < best_loss
       THEN /\ best_loss' = valid_loss
            /\ best_metric' = <<"valid_metric", fold, epoch>>
            /\ best_epoch' = epoch
            /\ best_model' = model
            /\ best_optimizer' = optimizer
            /\ patience_count' = patience_count
       ELSE /\ patience_count' = patience_count + 1
            /\ UNCHANGED <<best_loss, best_metric, best_epoch, best_model, best_optimizer>>
    /\ IF patience_count' = args.patience
       THEN /\ broke' = TRUE
            /\ pc' = "fold_done"
       ELSE /\ broke' = FALSE
            /\ pc' = "checkpoint"
    /\ UNCHANGED <<args, fold, epoch, all_train_losses, all_valid_losses, log_scores,
                   model, optimizer, valid_loss, files, tvars, pvars>>

\* mutant: only the first improving epoch of a fold copies model and
\* optimizer, later ones update the best loss and epoch only
EarlyStoppingFirstCopyOnly ==
    /\ pc = "early_stopping"
    /\ IF valid_loss < best_loss
       THEN /\ best_loss' = valid_loss
            /\ best_metric' = <<"valid_metric", fold, epoch>>
            /\ best_epoch' = epoch
            /\ best_model' = IF best_loss = Inf THEN model ELSE best_model
            /\ best_optimizer' = IF best_loss = Inf THEN optimizer ELSE best_optimizer
            /\ patience_count' = 0
       ELSE /\ patience_count' = patience_count + 1
            /\ UNCHANGED <<best_loss, best_metric, best_epoch, best_model, best_optimizer>>
    /\ IF patience_count' = args.patience
       THEN /\ broke' = TRUE
            /\ pc' = "fold_done"
       ELSE /\ broke' = FALSE
            /\ pc' = "checkpoint"
    /\ UNCHANGED <<args, fold, epoch, all_train_losses, all_valid_losses, log_scores,
                   model, optimizer, valid_loss, files, tvars, pvars>>

\* lines 175-190: best tracking, patience counter, break
EarlyStopping ==
    /\ pc = "early_stopping"
    /\ IF valid_loss < best_loss
       THEN /\ best_loss' = valid_loss
            /\ best_metric' = <<"valid_metric", fold, epoch>>
            /\ best_epoch' = epoch
            /\ best_model' = model
            /\ best_optimizer' = optimizer
            /\ patience_count' = 0
       ELSE /\ patience_count' = patience_count + 1
            /\ UNCHANGED <<best_loss, best_metric, best_epoch, best_model, best_optimizer>>
    /\ IF patience_count' = args.patience
       THEN /\ broke' = TRUE
            /\ pc' = "fold_done"
       ELSE /\ broke' = FALSE
            /\ pc' = "checkpoint"
    /\ UNCHANGED <<args, fold, epoch, all_train_losses, all_valid_losses, log_scores,
                   model, optimizer, valid_loss, files, tvars, pvars>>

\* mutant: the period is counted from 1 ((epoch + 1) % N instead of epoch % N)
CheckpointOffByOne ==
    /\ pc = "checkpoint"
    /\ files' = IF (epoch + 1) % args.checkpoint_epoch = 0 /\ epoch # 0
                THEN Put(files, <<"epoch_model", epoch>>,
                         [model_state |-> model, optimizer_state |-> optimizer,
                          epoch |-> epoch, log |-> log_scores])
                ELSE files
    /\ IF epoch + 1 < args.max_epochs
       THEN /\ epoch' = epoch + 1
            /\ pc' = "train"
       ELSE /\ epoch' = epoch
            /\ pc' = "fold_done"
    /\ UNCHANGED <<args, fold, best_loss, best_metric, best_epoch, patience_count,
                   best_model, best_optimizer, all_train_losses, all_valid_losses,
                   log_scores, model, optimizer, valid_loss, broke, tvars, pvars>>

\* mutant: a periodic checkpoint that already exists is not written again
CheckpointKeepsFirst ==
    /\ pc = "checkpoint"
    /\ files' = IF /\ epoch % args.checkpoint_epoch = 0 /\ epoch # 0
                   /\ <<"epoch_model", epoch>> \notin DOMAIN files
                THEN Put(files, <<"epoch_model", epoch>>,
                         [model_state |-> model, optimizer_state |-> optimizer,
                          epoch |-> epoch, log |-> log_scores])
                ELSE files
    /\ IF epoch + 1 < args.max_epochs
       THEN /\ epoch' = epoch + 1
            /\ pc' = "train"
       ELSE /\ epoch' = epoch
            /\ pc' = "fold_done"
    /\ UNCHANGED <<args, fold, best_loss, best_metric, best_epoch, patience_count,
                   best_model, best_optimizer, all_train_losses, all_valid_losses,
                   log_scores, model, optimizer, valid_loss, broke, tvars, pvars>>

\* lines 192-195 and the loop header: periodic checkpoint, next epoch or loop exit
Checkpoint ==
    /\ pc = "checkpoint"
    /\ files' = IF epoch % args.checkpoint_epoch = 0 /\ epoch # 0
                THEN Put(files, <<"epoch_model", epoch>>,
                         [model_state |-> model, optimizer_state |-> optimizer,
                          epoch |-> epoch, log |-> log_scores])
                ELSE files
    /\ IF epoch + 1 < args.max_epochs
       THEN /\ epoch' = epoch + 1
            /\ pc' = "train"
       ELSE /\ epoch' = epoch
            /\ pc' = "fold_done"
    /\ UNCHANGED <<args, fold, best_loss, best_metric, best_epoch, patience_count,
                   best_model, best_optimizer, all_train_losses, all_valid_losses,
                   log_scores, model, optimizer, valid_loss, broke, tvars, pvars>>

\* lines 197-216 and the fold loop header: save best model and the loss
\* histories, reset weights, next fold.  best_model.state_dict() on an unbound
\* best_model raises UnboundLocalError, which ends main.
\* reset_weights (lines 38-46) resets only the layers that expose
\* reset_parameters, so the model object is left either fully reset or with
\* what it learned in the layers that lack it.
FoldDone ==
    /\ pc = "fold_done"
    /\ IF best_model = Unbound
       THEN /\ pc' = "crashed"
            /\ UNCHANGED <<files, model, fold>>
       ELSE /\ files' =
                Put(Put(Put(files,
                    <<"best_model_fold", fold>>,
                        [model_state |-> best_model, optimizer_state |-> best_optimizer,
                         epoch |-> best_epoch, log |-> log_scores]),
                    <<"train_losses_fold", fold>>, all_train_losses),
                    <<"valid_losses_fold", fold>>,
                        [i \in 1..Len(all_valid_losses) |-> <<"valid_loss", fold, i - 1>>])
            /\ \E s \in {0, model.steps} : model' = [model EXCEPT !.steps = s]
            /\ IF fold + 1 < args.k_folds
               THEN /\ fold' = fold + 1
                    /\ pc' = "fold_start"
               ELSE /\ fold' = fold
                    /\ pc' = "trained"
    /\ UNCHANGED <<args, epoch, best_loss, best_metric, best_epoch, patience_count,
                   best_model, best_optimizer, all_train_losses, all_valid_losses,
                   log_scores, optimizer, valid_loss, broke, tvars, pvars>>

\* ------------------------------------------ evaluation_utils.save_predictions
\* label_ids, label_names as main passes them
label_ids == <<1, 2, 3, 4, 5>>
label_names == <<"Wheat", "Barley", "Canola", "Lucerne/Medics", "Small grain grazing">>

\* field id of sample k of batch b (1-based) of a loader with batch size n
Fid(n, b, k) == (b - 1) * n + k

\* DataLoader without drop_last: B batches of n samples, the last one of `last`
Loader(B, n, last) ==
    [b \in 1..B |-> [k \in 1..(IF b = B THEN last ELSE n) |-> Fid(n, b, k)]]

\* softmax(model(X)) for one sample: the probability vector is identified by
\* the weights in use and the sample; Argmax is np.argmax of it (0-based)
Probs(weights, fid) == <<"probs", weights, fid>>
Argmax(weights, fid) == IF weights = "checkpoint" THEN fid % 5 ELSE (fid + 1) % 5

PredictIdle ==
    /\ spc = "idle"
    /\ sp = [exists |-> FALSE]

\* a call save_predictions(save_model_path, model, data_loader, ...)
InitPredictVars ==
    /\ spc = "called"
    /\ \E ex \in BOOLEAN, split \in {"train", "test"}, mode \in {"train", "eval"},
          B \in 0..MaxBatches, n \in 1..MaxBatchSize :
          \E last \in 1..n :
             sp = [exists |-> ex, split |-> split,
                   data_loader |-> Loader(B, n, last),
                   model |-> [weights |-> "initial", mode |-> mode],
                   model_passed |-> [weights |-> "initial", mode |-> mode],
                   idx |-> 0,
                   output_list |-> <<>>,
                   forward |-> 0,
                   printed |-> <<>>,
                   written |-> <<>>]

\* mutant: the checkpoint is loaded without the os.path.exists test
SavePredictionsEnterNoTest ==
    /\ spc = "called"
    /\ sp' = [sp EXCEPT !.model = [weights |-> "checkpoint", mode |-> "eval"],
                        !.printed = Append(@, "INFO: Resuming from"),
                        !.output_list = <<>>]
    /\ spc' = "loop"
    /\ UNCHANGED <<tvars, mvars>>

\* lines 139-149 and 174-175: the os.path.exists test, loading the checkpoint
SavePredictionsEnter ==
    /\ spc = "called"
    /\ IF sp.exists
       THEN /\ sp' = [sp EXCEPT !.model = [weights |-> "checkpoint", mode |-> "eval"],
                                !.printed = Append(@, "INFO: Resuming from"),
                                !.output_list = <<>>]
            /\ spc' = "loop"
       ELSE /\ sp' = [sp EXCEPT !.printed = Append(@, "INFO: no best model found ...")]
            /\ spc' = "returned"
    /\ UNCHANGED <<tvars, mvars>>

\* lines 153-161: one iteration of the loop over the batches
SavePredictionsBatch ==
    /\ spc = "loop"
    /\ sp.idx < Len(sp.data_loader)
    /\ LET fid == sp.data_loader[sp.idx + 1]
           \* softmax(logits).cpu().detach().numpy()[0]: row 0 of the batch
           predicted_probabilities == Probs(sp.model.weights, fid[1])
           predicted_class == Argmax(sp.model.weights, fid[1])
       IN sp' = [sp EXCEPT
                    !.forward = @ + 1,
                    !.idx = @ + 1,
                    !.output_list = Append(@,
                        [fid |-> fid[1],
                         crop_id |-> label_ids[predicted_class + 1],
                         crop_name |-> label_names[predicted_class + 1],
                         crop_probs |-> predicted_probabilities])]
    /\ spc' = "loop"
    /\ UNCHANGED <<tvars, mvars>>

\* lines 163-172: write the predictions
SavePredictionsWrite ==
    /\ spc = "loop"
    /\ sp.idx = Len(sp.data_loader)
    /\ LET output_name == IF sp.split = "train" THEN "validation.json" ELSE "submission.json"
       IN sp' = [sp EXCEPT
                    !.printed = Append(@, IF sp.split = "train"
                                          THEN "Validation was saved to location"
                                          ELSE "Submission was saved to location"),
                    !.written = Put(@, output_name, sp.output_list)]
    /\ spc' = "returned"
    /\ UNCHANGED <<tvars, mvars>>

\* -------------------------------------------------------- specifications
InitTransform == InitTransformVars /\ TrainIdle /\ PredictIdle
NextTransform == Transform \/ CropOrPadToSize \/ RandomCrop
SpecTransform == InitTransform /\ [][NextTransform]_vars

InitTrain == TransformIdle /\ InitTrainVars /\ PredictIdle
NextTrain == FoldStart \/ TrainEpoch \/ ValidateEpoch \/ EarlyStopping \/ Checkpoint \/ FoldDone
SpecTrain == InitTrain /\ [][NextTrain]_vars

InitPredict == TransformIdle /\ TrainIdle /\ InitPredictVars
NextPredict == SavePredictionsEnter \/ SavePredictionsBatch \/ SavePredictionsWrite
SpecPredict == InitPredict /\ [][NextPredict]_vars

\* ------------------------------------------------------- claims: transform
\* shape and dimensions of the arguments of the call
InT == image_in.shape[1]
InD == image_in.shape[2]
InH == image_in.shape[3]
InW == image_in.shape[4]

\* C1: crop_or_pad_to_size returns an image of shape [T, D, s, s] and a mask
\* of shape [s, s] for every input [T, D, H, W] with H, W >= 1 and every
\* target size s >= 1.
C1_ExactTargetSize ==
    (tpc = "output" /\ call.fn = "crop_or_pad_to_size") =>
        /\ result.image_stack.shape = <<InT, InD, self.image_size, self.image_size>>
        /\ result.mask.shape = <<self.image_size, self.image_size>>

\* C1 witness: a call that crops the height by an odd difference and pads the
\* width by an odd difference has returned
C1_Witness ==
    /\ tpc = "output" /\ call.fn = "crop_or_pad_to_size"
    /\ InH > self.image_size /\ (InH - self.image_size) % 2 = 1
    /\ InW < self.image_size /\ (self.image_size - InW) % 2 = 1
    /\ result.image_stack.shape[3] = self.image_size

\* the input pixel (t, d) that lies at the position a mask cell m # 0 was read from
PixelUnder(m, t, d) ==
    LET k == IF m > 0 THEN m ELSE -m
    IN ((t - 1) * InD + (d - 1)) * InH * InW + k

\* C2: in spatial mode transform returns image and mask of identical spatial
\* shape, and at every output position the mask cell and the image pixels
\* come from the same input position or are both padding.
C2_Aligned ==
    (tpc = "output" /\ call.fn = "transform" /\ self.spatial_encoder) =>
        /\ <<result.image_stack.shape[3], result.image_stack.shape[4]>> = result.mask.shape
        /\ \A p \in DOMAIN result.image_stack.at :
              LET m == result.mask.at[<<p[3], p[4]>>]
              IN result.image_stack.at[p] = IF m = 0 THEN 0 ELSE PixelUnder(m, p[1], p[2])

\* C2 witness: a transform that cropped at a random centre, padded (odd
\* target size) and rotated by 90 degrees has returned
C2_Witness ==
    /\ tpc = "output" /\ call.fn = "transform" /\ self.spatial_encoder
    /\ call.h > 0 /\ call.rot = 1
    /\ self.image_size = 3
    /\ \E p \in DOMAIN result.mask.at : result.mask.at[p] = 0
    /\ \E p \in DOMAIN result.mask.at : result.mask.at[p] # 0

\* number of cells of the mask argument with mask > 0
FieldSize == Cardinality({p \in DOMAIN mask_in.at : mask_in.at[p] > 0})

\* C9: with spatial encoding disabled transform returns an image of shape
\* [T, D] whose cell (t, d) is the average of the input pixels (t, d, i, j)
\* over the positions with mask > 0 of the whole, uncropped and unrotated
\* input, and the mask is replaced by -1.
C9_NonSpatial ==
    (tpc = "output" /\ call.fn = "transform" /\ ~self.spatial_encoder) =>
        /\ result.image_stack.shape = <<InT, InD>>
        /\ result.mask = -1
        /\ \A p \in (1..InT) \X (1..InD) :
              LET n == FieldSize
                  base == ((p[1] - 1) * InD + (p[2] - 1)) * InH * InW
              IN result.image_stack.at[p] =
                    [sum |-> n * base + (n * (n + 1)) \div 2, n |-> n]

\* C9 witness: a non-spatial transform of a non-square image whose field
\* covers some but not all pixels has returned
C9_Witness ==
    /\ tpc = "output" /\ call.fn = "transform" /\ ~self.spatial_encoder
    /\ InH # InW /\ InT > 1 /\ InD > 1
    /\ FieldSize > 1 /\ FieldSize < InH * InW
    /\ result.mask = -1

\* ------------------------------------------------- claims: training loop
\* epochs of the current fold that have been validated
Validated == Len(all_valid_losses)

\* smallest of the first k validation losses of the fold (np.inf for k = 0)
RECURSIVE MinLoss(_)
MinLoss(k) == IF k = 0 THEN Inf ELSE Min(all_valid_losses[k], MinLoss(k - 1))

\* the k-th validated epoch (epoch number k - 1) lowered the fold's best loss
Improved(k) == all_valid_losses[k] < MinLoss(k - 1)

\* length of the run of consecutive non-improving epochs that ends with the
\* k-th validated epoch
RECURSIVE TrailRun(_)
TrailRun(k) == IF k = 0 \/ Improved(k) THEN 0 ELSE 1 + TrailRun(k - 1)

\* main is inside fold `fold` (between its initialisation and its completion)
InFold == pc \in {"train", "validate", "early_stopping", "checkpoint", "fold_done"}

\* epochs of the current fold whose early-stopping decision has been taken
Decided == IF pc = "early_stopping" THEN Validated - 1 ELSE Validated

\* C3: the epoch loop of a fold is left by early stopping exactly at the end
\* of the first epoch that completes a run of `patience` consecutive epochs
\* whose validation loss is not strictly lower than the best so far: never
\* earlier, and no further epoch runs after such a run.
C3_EarlyStopExact ==
    (pc # "idle") =>
        /\ broke => (Decided >= 1 /\ TrailRun(Decided) = args.patience)
        /\ \A k \in 1..(Decided - 1) : TrailRun(k) # args.patience
        /\ (~broke /\ Decided >= 1) => TrailRun(Decided) # args.patience

\* C3 witness: a fold was stopped early after an improvement followed by a
\* full run of non-improving epochs
C3_Witness ==
    /\ pc = "fold_done" /\ broke
    /\ args.patience = 2
    /\ Validated = 3
    /\ Improved(1) /\ ~Improved(2) /\ ~Improved(3)

\* the checkpoint-like artifacts of target_dir
ModelFiles == {n \in DOMAIN files : n[1] \in {"epoch_model", "best_model_fold"}}

\* C5 (as stated): at every epoch whose validation loss is strictly lower than
\* the fold's best so far, the model/optimizer state is written to a
\* checkpoint artifact before the next epoch starts.
C5_PersistOnNewBest ==
    (pc = "train" /\ epoch >= 1 /\ Improved(epoch)) =>
        \E n \in ModelFiles :
            /\ files[n].model_state = [fold |-> fold, steps |-> epoch]
            /\ files[n].optimizer_state = [fold |-> fold, steps |-> epoch]

\* the fold whose completion (save best model) was executed last, -1 if none
LastSavedFold ==
    CASE pc = "fold_start" -> fold - 1
      [] pc = "trained" -> fold
      [] OTHER -> -1

\* C5 (amended): at every epoch whose validation loss is strictly lower than
\* the fold's best so far, model and optimizer are deep-copied in memory
\* (best_model, best_optimizer, best_epoch, best_loss) as part of that epoch;
\* the fold's best-model artifact is not written during the epoch loop but
\* when the fold completes, from the copy held then.
C5_SnapshotOnNewBest ==
    /\ (pc \in {"checkpoint", "fold_done"} /\ Validated >= 1 /\ Improved(Validated)) =>
            /\ best_model = [fold |-> fold, steps |-> Validated]
            /\ best_optimizer = [fold |-> fold, steps |-> Validated]
            /\ best_epoch = Validated - 1
            /\ best_loss = all_valid_losses[Validated]
    /\ InFold => <<"best_model_fold", fold>> \notin DOMAIN files
    /\ LastSavedFold >= 0 =>
            /\ <<"best_model_fold", LastSavedFold>> \in DOMAIN files
            /\ files[<<"best_model_fold", LastSavedFold>>].model_state = best_model
            /\ files[<<"best_model_fold", LastSavedFold>>].optimizer_state = best_optimizer

\* C5 witness: the second epoch of a fold found a new best loss and the loop
\* went on without any artifact holding that state
C5_Witness ==
    /\ pc = "train" /\ epoch = 2
    /\ Improved(2)
    /\ best_model = [fold |-> fold, steps |-> 2]
    /\ args.checkpoint_epoch = 2
    /\ ModelFiles = {}

\* the periodic checkpoint of epoch e as the current fold writes it
PeriodicSaved(e) ==
    /\ <<"epoch_model", e>> \in DOMAIN files
    /\ files[<<"epoch_model", e>>] =
          [model_state |-> [fold |-> fold, steps |-> e + 1],
           optimizer_state |-> [fold |-> fold, steps |-> e + 1],
           epoch |-> e,
           log |-> SubSeq(log_scores, 1, e + 1)]
    /\ \A i \in 1..(e + 1) : log_scores[i].epoch = i - 1

\* C6 (as stated): for every epoch e the fold executed (training and
\* validation both ran) with e a multiple of N, a checkpoint holding model
\* state, optimizer state, epoch e and the score log of epochs 0..e is
\* persisted at that epoch.
C6_PeriodicEveryMultiple ==
    /\ InFold => \A e \in 0..(epoch - 1) :
            (e % args.checkpoint_epoch = 0) => PeriodicSaved(e)
    /\ (pc = "fold_done" /\ Validated >= 1 /\ epoch % args.checkpoint_epoch = 0)
            => PeriodicSaved(epoch)

\* C6 (amended): for every epoch e > 0 the fold executed with e a multiple
\* of N and at which early stopping did not trigger, such a checkpoint is
\* persisted at that epoch.
C6_PeriodicNonZeroNoStop ==
    /\ InFold => \A e \in 1..(epoch - 1) :
            (e % args.checkpoint_epoch = 0) => PeriodicSaved(e)
    /\ (pc = "fold_done" /\ Validated >= 1 /\ ~broke /\ epoch >= 1
            /\ epoch % args.checkpoint_epoch = 0)
            => PeriodicSaved(epoch)

\* C6 witness: the second fold has written its periodic checkpoint of
\* epoch 2 and left the epoch loop without early stopping
C6_Witness ==
    /\ pc = "fold_done" /\ ~broke /\ fold = 1
    /\ epoch = 2 /\ args.checkpoint_epoch = 2
    /\ PeriodicSaved(2)

\* C7 (as stated): at the start of every fold the whole training state is
\* reset, the best model snapshot included, so that the best model persisted
\* for fold f is a snapshot taken during fold f.
C7_FoldStateReset ==
    /\ (pc = "train" /\ epoch = 0) =>
            /\ best_loss = Inf /\ best_epoch = 0 /\ patience_count = 0
            /\ best_model = Unbound /\ best_optimizer = Unbound
    /\ \A n \in DOMAIN files :
            n[1] = "best_model_fold" => files[n].model_state.fold = n[2]

\* 0-based number of the earliest epoch of the fold whose validation loss
\* equals the minimum over the epochs the fold executed
EarliestBest ==
    (CHOOSE k \in 1..Validated :
        /\ all_valid_losses[k] = MinLoss(Validated)
        /\ \A j \in 1..(k - 1) : all_valid_losses[j] # MinLoss(Validated)) - 1

\* C8 (as stated): every fold that is started ends by persisting a best model
\* under a fold-specific name, and the epoch recorded with it is the earliest
\* epoch of that fold with the minimum validation loss, for every max_epochs,
\* patience and loss sequence.
C8_BestModelPersisted ==
    /\ pc # "crashed"
    /\ LastSavedFold >= 0 =>
            /\ <<"best_model_fold", LastSavedFold>> \in DOMAIN files
            /\ Validated >= 1
            /\ files[<<"best_model_fold", LastSavedFold>>].epoch = EarliestBest

\* --------------------------------------------- claims: save_predictions
\* number of samples of the loader
Samples ==
    LET RECURSIVE count(_)
        count(b) == IF b = 0 THEN 0 ELSE Len(sp.data_loader[b]) + count(b - 1)
    IN count(Len(sp.data_loader))

\* C4 (as stated): when the checkpoint file exists, save_predictions exports
\* one record per sample: field id, top-1 class id and name and probability
\* vector of each sample of each batch, so the number of records is the
\* number of samples.
C4_OneRecordPerSample ==
    (spc = "returned" /\ sp.exists) =>
        LET out == sp.written[IF sp.split = "train" THEN "validation.json"
                                                    ELSE "submission.json"]
        IN /\ Len(out) = Samples
           /\ \A b \in DOMAIN sp.data_loader : \A k \in DOMAIN sp.data_loader[b] :
                 \E i \in DOMAIN out :
                    LET fid == sp.data_loader[b][k]
                    IN out[i] = [fid |-> fid,
                                 crop_id |-> label_ids[Argmax("checkpoint", fid) + 1],
                                 crop_name |-> label_names[Argmax("checkpoint", fid) + 1],
                                 crop_probs |-> Probs("checkpoint", fid)]

\* C10: when the checkpoint file does not exist, save_predictions prints the
\* informational message and returns: no forward pass, the model as passed,
\* no prediction file.
C10_MissingCheckpointSkips ==
    (spc # "idle" /\ spc # "called" /\ ~sp.exists) =>
        /\ spc = "returned"
        /\ sp.printed = <<"INFO: no best model found ...">>
        /\ sp.forward = 0
        /\ sp.model = sp.model_passed
        /\ sp.output_list = <<>>
        /\ sp.written = <<>>

\* C10 witness: a call with a non-empty loader and no checkpoint file has returned
C10_Witness ==
    /\ spc = "returned" /\ ~sp.exists
    /\ Len(sp.data_loader) > 1
    /\ sp.model_passed.mode = "train"
    /\ sp.printed # <<>>

\* ------------------------------------------- claims: order of the steps
\* the steps main can take from one position to the next
StepOrder ==
    \/ pc = "fold_start" /\ pc' = "train" /\ epoch' = 0 /\ fold' = fold
    \/ pc = "fold_start" /\ pc' = "fold_done" /\ fold' = fold
    \/ pc = "train" /\ pc' = "validate" /\ epoch' = epoch /\ fold' = fold
    \/ pc = "validate" /\ pc' = "early_stopping" /\ epoch' = epoch /\ fold' = fold
    \/ pc = "early_stopping" /\ pc' = "checkpoint" /\ epoch' = epoch /\ fold' = fold
    \/ pc = "early_stopping" /\ pc' = "fold_done" /\ epoch' = epoch /\ fold' = fold
    \/ pc = "checkpoint" /\ pc' = "train" /\ epoch' = epoch + 1 /\ fold' = fold
    \/ pc = "checkpoint" /\ pc' = "fold_done" /\ epoch' = epoch /\ fold' = fold
    \/ pc = "fold_done" /\ pc' = "fold_start" /\ fold' = fold + 1
    \/ pc = "fold_done" /\ pc' \in {"trained", "crashed"} /\ fold' = fold

\* C11: within a fold the steps follow INIT, then per epoch e = 0, 1, ...
\* TRAIN_EPOCH(e), VALIDATE_EPOCH(e), early-stop decision, periodic-checkpoint
\* decision; VALIDATE_EPOCH(e) has TRAIN_EPOCH(e) immediately before it;
\* FOLD_DONE is reached only from an early stop or when max_epochs epochs
\* have run; fold f+1 starts only from the FOLD_DONE of fold f.
C11_StepOrder ==
    /\ [][StepOrder]_vars
    /\ [][(pc' = "validate") =>
            /\ pc = "train"
            /\ Len(all_train_losses') = epoch + 1
            /\ Len(all_valid_losses') = epoch]_vars
    /\ [][(pc' = "fold_done") =>
            \/ pc = "early_stopping" /\ broke'
            \/ ~broke' /\ Len(all_train_losses') = args.max_epochs
                       /\ Len(all_valid_losses') = args.max_epochs]_vars
    /\ [][(fold' # fold) => (pc = "fold_done" /\ fold' = fold + 1 /\ pc' = "fold_start")]_vars

\* C11 witness: the second fold has run two full epochs and was then stopped
\* early in its third
C11_Witness ==
    /\ pc = "fold_done" /\ broke /\ fold = 1
    /\ epoch = 2 /\ Validated = 3
    /\ Len(all_train_losses) = 3

\* --------------------------------------- claims: crop and pad arithmetic
\* floor(n/2) and ceil(n/2) of a natural number n
HalfDown(n) == (n - (n % 2)) \div 2
HalfUp(n) == (n + (n % 2)) \div 2

\* entries an axis of length n loses (+) or gains (-) at its leading edge
\* when it is brought to length s the way C12 describes
LeadShift(n, s) == IF n > s THEN HalfDown(n - s) ELSE -HalfDown(s - n)
\* the same at its trailing edge
TrailShift(n, s) == IF n > s THEN HalfUp(n - s) ELSE -HalfUp(s - n)

\* C12: crop_or_pad_to_size treats each spatial dimension independently: a
\* dimension exceeding the target by d loses floor(d/2) leading and ceil(d/2)
\* trailing entries, one short by p gains floor(p/2) leading and ceil(p/2)
\* trailing zero entries, in image and mask alike, and one equal to the
\* target is unchanged.
C12_FloorCeilSplit ==
    (tpc = "output" /\ call.fn = "crop_or_pad_to_size") =>
        LET s == self.image_size
            oh == LeadShift(InH, s)
            ow == LeadShift(InW, s)
            h == InH - oh - TrailShift(InH, s)
            w == InW - ow - TrailShift(InW, s)
            inside(i, j) == i + oh >= 1 /\ i + oh <= InH /\ j + ow >= 1 /\ j + ow <= InW
        IN /\ result.image_stack.shape = <<InT, InD, h, w>>
           /\ result.mask.shape = <<h, w>>
           /\ \A p \in (1..InT) \X (1..InD) \X (1..h) \X (1..w) :
                 result.image_stack.at[p] =
                    IF inside(p[3], p[4])
                    THEN image_in.at[<<p[1], p[2], p[3] + oh, p[4] + ow>>]
                    ELSE 0
           /\ \A p \in (1..h) \X (1..w) :
                 result.mask.at[p] =
                    IF inside(p[1], p[2])
                    THEN mask_in.at[<<p[1] + oh, p[2] + ow>>]
                    ELSE 0

\* C12 witness: a call that cropped the height by 3 (1 leading, 2 trailing
\* rows) and padded the width by 1 (trailing column) has returned
C12_Witness ==
    /\ tpc = "output" /\ call.fn = "crop_or_pad_to_size"
    /\ InH = self.image_size + 3
    /\ InW = self.image_size - 1
    /\ result.mask.at[<<1, 1>>] \in {InW + 1, -(InW + 1)}
    /\ result.mask.at[<<1, self.image_size>>] = 0

\* ------------------------------------------------ claims: random_crop
\* C13 (as stated): for every target size s, even or odd, and every input
\* with height and width at least s, the crop steps of transform
\* (random_crop, then crop_or_pad_to_size; rot = 0 leaves them unrotated)
\* yield an s x s contiguous window of the input, without zero padding.
C13_CropIsWindow ==
    (/\ tpc = "output" /\ call.fn = "transform" /\ self.spatial_encoder
     /\ call.rot = 0
     /\ InH >= self.image_size /\ InW >= self.image_size) =>
        LET s == self.image_size
        IN /\ result.image_stack.shape = <<InT, InD, s, s>>
           /\ result.mask.shape = <<s, s>>
           /\ \E r0 \in 0..(InH - s), c0 \in 0..(InW - s) :
                 /\ \A p \in DOMAIN result.image_stack.at :
                       result.image_stack.at[p] =
                            image_in.at[<<p[1], p[2], p[3] + r0, p[4] + c0>>]
                 /\ \A p \in DOMAIN result.mask.at :
                       result.mask.at[p] = mask_in.at[<<p[1] + r0, p[2] + c0>>]

\* random_crop was called directly and took neither early return
Cropped ==
    /\ tpc = "output" /\ call.fn = "random_crop"
    /\ ~RandomCropSkips(image_in, self.image_size)

\* 0-based row and column of the input that a mask cell m # 0 was read from
RowOf(m) == ((IF m > 0 THEN m ELSE -m) - 1) \div InW
ColOf(m) == ((IF m > 0 THEN m ELSE -m) - 1) % InW

\* C14 (as stated): random_crop returns image and mask unchanged when
\* H - s//2 <= s or W - s//2 <= s; otherwise, for every centre the draw can
\* produce, the windows [h - s//2, h + s//2) and [w - s//2, w + s//2) lie
\* inside [0, H) and [0, W) and are non-empty, so the slice is neither
\* truncated nor wrapped.
C14_WindowInBounds ==
    (tpc = "output" /\ call.fn = "random_crop") =>
        LET s == self.image_size
            half == FloorDiv(s, 2)
        IN IF RandomCropSkips(image_in, s)
           THEN result.image_stack = image_in /\ result.mask = mask_in
           ELSE /\ 0 <= call.h - half /\ call.h + half <= InH
                /\ 0 <= call.w - half /\ call.w + half <= InW
                /\ call.h - half < call.h + half
                /\ call.w - half < call.w + half
                /\ result.mask.shape = <<2 * half, 2 * half>>
                /\ result.image_stack.shape = <<InT, InD, 2 * half, 2 * half>>
                /\ \A p \in DOMAIN result.mask.at :
                      result.mask.at[p] =
                         mask_in.at[<<p[1] + call.h - half, p[2] + call.w - half>>]

\* C17: whenever random_crop crops, the window holds none of the first
\* s - s//2 rows or columns of the input and neither its last row nor its
\* last column: every row it holds has an index from s - s//2 to H - 2,
\* every column one from s - s//2 to W - 2.
C17_WindowAvoidsEdges ==
    Cropped =>
        LET s == self.image_size
            lo == s - FloorDiv(s, 2)
        IN /\ \A p \in DOMAIN result.mask.at :
                 /\ RowOf(result.mask.at[p]) >= lo
                 /\ RowOf(result.mask.at[p]) <= InH - 2
                 /\ ColOf(result.mask.at[p]) >= lo
                 /\ ColOf(result.mask.at[p]) <= InW - 2
           /\ \A p \in DOMAIN result.image_stack.at :
                 result.image_stack.at[p] =
                    PixelUnder(result.mask.at[<<p[3], p[4]>>], p[1], p[2])

\* C17 witness: random_crop has cut a non-empty window out of a 5 x 5 input
\* at the largest centre it can draw
C17_Witness ==
    /\ Cropped
    /\ InH = 5 /\ InW = 5 /\ self.image_size = 2
    /\ call.h = 3 /\ call.w = 3
    /\ result.mask.shape = <<2, 2>>
    /\ RowOf(result.mask.at[<<2, 2>>]) = 3


\* C15: at the first training epoch of every fold the model parameters and the
\* optimizer state are the freshly initialised ones of that fold, whatever the
\* earlier folds learned and whatever the weight reset left in the old model.
Fresh(k) == [fold |-> k, steps |-> 0]

C15_FreshPerFold ==
    /\ (pc = "train" /\ epoch = 0) => (model = Fresh(fold) /\ optimizer = Fresh(fold))
    /\ (pc \in {"train", "validate", "early_stopping", "checkpoint"})
          => (model.fold = fold /\ optimizer.fold = fold
              /\ model.steps = Len(all_train_losses)
              /\ optimizer.steps = Len(all_train_losses))

C15_Witness ==
    /\ pc = "train" /\ epoch = 0 /\ fold = 1
    /\ <<"best_model_fold", 0>> \in DOMAIN files
    /\ files[<<"best_model_fold", 0>>].model_state.steps >= 2
    /\ model = Fresh(1) /\ optimizer = Fresh(1)

\* C16 (as stated): for every k_folds, max_epochs >= 0, patience and sequence
\* of validation losses the run executes at most max_epochs epochs per fold,
\* every fold reaches its completion and hands over to the next one, and the
\* run ends after exactly k_folds folds, run once each in increasing order.
FoldCompleted(j) ==
    /\ <<"best_model_fold", j>> \in DOMAIN files
    /\ <<"train_losses_fold", j>> \in DOMAIN files
    /\ <<"valid_losses_fold", j>> \in DOMAIN files

C16_AllFoldsRun ==
    /\ Len(all_train_losses) <= args.max_epochs
    /\ Len(all_valid_losses) <= Len(all_train_losses)
    /\ fold \in 0..(args.k_folds - 1)
    /\ \A j \in 0..(fold - 1) : FoldCompleted(j)
    /\ pc # "crashed"
    /\ pc = "trained" => (fold = args.k_folds - 1 /\ FoldCompleted(fold))

\* C18: a periodic checkpoint is named by its epoch alone, so each fold that
\* saves one at epoch e replaces what an earlier fold left under that name and
\* the artifact holds the state of the last fold that saved there; best-model
\* and loss-history artifacts are named by fold, written once by their own
\* fold at its completion, and never changed afterwards.
PeriodicName(n) == n[1] = "epoch_model"

Written(n) == n \notin DOMAIN files \/ files'[n] # files[n]

C18_ArtifactKeys ==
    [][/\ DOMAIN files \subseteq DOMAIN files'
       /\ \A n \in DOMAIN files' :
            Written(n) =>
                IF PeriodicName(n)
                THEN /\ pc = "checkpoint"
                     /\ n = <<"epoch_model", epoch>>
                     /\ files'[n].model_state.fold = fold
                ELSE /\ pc = "fold_done"
                     /\ n[2] = fold
                     /\ n \notin DOMAIN files
       /\ (pc = "checkpoint" /\ epoch # 0 /\ epoch % args.checkpoint_epoch = 0) =>
            /\ <<"epoch_model", epoch>> \in DOMAIN files'
            /\ files'[<<"epoch_model", epoch>>] =
                    [model_state |-> model, optimizer_state |-> optimizer,
                     epoch |-> epoch, log |-> log_scores]
      ]_vars

C18_Witness ==
    /\ pc = "trained" /\ fold = 1 /\ args.checkpoint_epoch = 1
    /\ FoldCompleted(0) /\ FoldCompleted(1)
    /\ Len(files[<<"valid_losses_fold", 0>>]) >= 3
    /\ <<"epoch_model", 1>> \in DOMAIN files
    /\ files[<<"epoch_model", 1>>].model_state.fold = 1
    /\ files[<<"valid_losses_fold", 0>>][1] = <<"valid_loss", 0, 0>>

====
